---- MODULE Spec2Model ----
(***************************************************************************)
(* Model of dataflow/log_processing_pipeline.py: the three DoFns           *)
(* (ParseLogEntry, EnrichLogs, DetermineShardTable) and the per-shard      *)
(* Filter fan-out built by run_pipeline.                                   *)
(*                                                                         *)
(* Python values are tagged records [t |-> tag, v |-> payload]; a str is a *)
(* sequence of one-character strings, a dict a function from key names to  *)
(* values.  An exception raised while an expression is evaluated is the    *)
(* value Raised, which every operation propagates.                         *)
(***************************************************************************)
EXTENDS Integers, Sequences, FiniteSets, TLC

-----------------------------------------------------------------------------
(* Bounds of the model *)

\* raw messages delivered to the pipeline in one run
MaxMsgs == 2
\* advances of the wall clock in one run
MaxTicks == 2
\* bound on |hash(x)|: Py_hash_t is 64 bits wide, only hash % 4 is observed
HashBound == 2

-----------------------------------------------------------------------------
(* Python values *)

JNull == [t |-> "null", v |-> <<>>]
JStr(s) == [t |-> "str", v |-> s]
JInt(n) == [t |-> "int", v |-> n]
JList(xs) == [t |-> "list", v |-> xs]
JDict(f) == [t |-> "dict", v |-> f]
EmptyDict == JDict(<<>>)
\* the outcome of an expression whose evaluation raised
Raised == [t |-> "raise", v |-> <<>>]

\* x.get(key, default): AttributeError unless x is a dict
Get(x, key, default) ==
    IF x.t # "dict" THEN Raised
    ELSE IF key \in DOMAIN x.v THEN x.v[key] ELSE default

\* len(x): TypeError for None and int
PyLen(x) ==
    CASE x.t \in {"str", "list"} -> Len(x.v)
      [] x.t = "dict" -> Cardinality(DOMAIN x.v)
      [] OTHER -> -1

HasLen(x) == x.t \in {"str", "list", "dict"}

Min(a, b) == IF a < b THEN a ELSE b

-----------------------------------------------------------------------------
(* JSON text.  A text is a sequence of tokens: the punctuation marks, the  *)
(* scalars (str, int, null), object keys, and bare words that are no JSON.  *)

Punct(c) == [t |-> "punct", v |-> c]
Key(k) == [t |-> "key", v |-> k]
Word(w) == [t |-> "word", v |-> w]
IsPunct(tk, c) == tk.t = "punct" /\ tk.v = c

\* the order in which an object's members are written
KeyOrder ==
    << "timestamp", "severity", "textPayload", "message", "resource", "type",
       "labels", "project_id", "container_name", "trace", "spanId",
       "sourceLocation", "component", "file" >>

RECURSIVE JoinTokens(_)
\* the texts of parts, separated by commas
JoinTokens(parts) ==
    IF parts = <<>> THEN <<>>
    ELSE IF Len(parts) = 1 THEN parts[1]
    ELSE parts[1] \o <<Punct(",")>> \o JoinTokens(Tail(parts))

RECURSIVE Dumps(_)
\* json.dumps(x)
Dumps(x) ==
    CASE x.t = "dict" ->
           LET keys == SelectSeq(KeyOrder, LAMBDA k : k \in DOMAIN x.v)
               member(i) == <<Key(keys[i]), Punct(":")>> \o Dumps(x.v[keys[i]])
           IN  <<Punct("{")>> \o JoinTokens([i \in 1..Len(keys) |-> member(i)])
                   \o <<Punct("}")>>
      [] x.t = "list" ->
           <<Punct("[")>> \o JoinTokens([i \in 1..Len(x.v) |-> Dumps(x.v[i])])
               \o <<Punct("]")>>
      [] OTHER -> <<x>>

ParseFail == [ok |-> FALSE, val |-> JNull, next |-> 0]
ParseOk(val, next) == [ok |-> TRUE, val |-> val, next |-> next]

RECURSIVE ParseValue(_, _)
RECURSIVE ParseMembers(_, _, _)
RECURSIVE ParseItems(_, _, _)

\* the members of an object from toks[i] on, after "{" or ","; a repeated
\* key keeps its last value
ParseMembers(toks, i, acc) ==
    IF i + 1 > Len(toks) \/ toks[i].t # "key" \/ ~IsPunct(toks[i + 1], ":")
    THEN ParseFail
    ELSE LET r == ParseValue(toks, i + 2)
             k == toks[i].v
             d == [x \in DOMAIN acc \cup {k} |-> IF x = k THEN r.val ELSE acc[x]]
         IN  IF ~r.ok \/ r.next > Len(toks) THEN ParseFail
             ELSE IF IsPunct(toks[r.next], ",") THEN ParseMembers(toks, r.next + 1, d)
             ELSE IF IsPunct(toks[r.next], "}") THEN ParseOk(JDict(d), r.next + 1)
             ELSE ParseFail

\* the items of an array from toks[i] on, after "[" or ","
ParseItems(toks, i, acc) ==
    LET r == ParseValue(toks, i)
    IN  IF ~r.ok \/ r.next > Len(toks) THEN ParseFail
        ELSE IF IsPunct(toks[r.next], ",")
             THEN ParseItems(toks, r.next + 1, Append(acc, r.val))
        ELSE IF IsPunct(toks[r.next], "]")
             THEN ParseOk(JList(Append(acc, r.val)), r.next + 1)
        ELSE ParseFail

\* one JSON value starting at toks[i]
ParseValue(toks, i) ==
    IF i > Len(toks) THEN ParseFail
    ELSE LET tk == toks[i]
             close(c) == i + 1 <= Len(toks) /\ IsPunct(toks[i + 1], c)
         IN  CASE tk.t \in {"str", "int", "null"} -> ParseOk(tk, i + 1)
               [] IsPunct(tk, "{") ->
                    IF close("}") THEN ParseOk(EmptyDict, i + 2)
                    ELSE ParseMembers(toks, i + 1, <<>>)
               [] IsPunct(tk, "[") ->
                    IF close("]") THEN ParseOk(JList(<<>>), i + 2)
                    ELSE ParseItems(toks, i + 1, <<>>)
               [] OTHER -> ParseFail

\* json.loads that stops after the first value and ignores what follows
JsonLoadsLenient(text) ==
    LET r == ParseValue(text, 1)
    IN  IF r.ok THEN r.val ELSE Raised

\* json.loads(text): the value, or JSONDecodeError when the text is not
\* exactly one JSON value
JsonLoads(text) ==
    LET r == ParseValue(text, 1)
    IN  IF r.ok /\ r.next = Len(text) + 1 THEN r.val ELSE Raised

\* element.decode('utf-8'): UnicodeDecodeError on bytes that are no UTF-8
Decode(element) ==
    IF element.utf8 THEN [t |-> "text", v |-> element.v, utf8 |-> TRUE]
    ELSE Raised

-----------------------------------------------------------------------------
(* String literals of the program *)

StrINFO == <<"I", "N", "F", "O">>
StrUnknown == <<"u", "n", "k", "n", "o", "w", "n">>
PipelineVersion == <<"1", ".", "0", ".", "0">>
TruncationMarker ==
    <<".", ".", ".", "[", "T", "R", "U", "N", "C", "A", "T", "E", "D", "]">>
TablePrefix ==
    << "r", "e", "a", "l", "_", "t", "i", "m", "e", "_", "l", "o", "g", "s",
       "_", "s", "h", "a", "r", "d", "_" >>

\* the message length above which EnrichLogs truncates
MaxMessageLen == 1000
\* the modulus of the shard number
NumShards == 4
\* microseconds in a second: the resolution of datetime.utcnow()
UsecPerSec == 1000000

Digits == <<"0", "1", "2", "3", "4", "5", "6", "7", "8", "9">>

RECURSIVE DecStr(_)
\* str(n), as an f-string formats it
DecStr(n) ==
    IF n < 0 THEN <<"-">> \o DecStr(-n)
    ELSE IF n < 10 THEN <<Digits[n + 1]>>
    ELSE Append(DecStr(n \div 10), Digits[(n % 10) + 1])

\* n in decimal, zero-padded on the left to width w
ZeroPad(n, w) ==
    LET d == DecStr(n)
    IN  [i \in 1..(w - Len(d)) |-> "0"] \o d

-----------------------------------------------------------------------------
(* ParseLogEntry *)

\* the object the fields are read from: the element decoded and parsed
LogData(element) ==
    LET decoded == IF element.t = "bytes" THEN Decode(element) ELSE element
    IN  CASE decoded.t = "raise" -> Raised
          [] decoded.t = "text" -> JsonLoads(decoded.v)
          [] OTHER -> decoded

\* ExtractFields with the defaults of severity and resource_type left out
ExtractFieldsNoDefaults(log_data) ==
    [ timestamp |-> Get(log_data, "timestamp", JNull),
      severity |-> Get(log_data, "severity", JNull),
      message |-> Get(log_data, "textPayload",
                      Get(log_data, "message", JStr(<<>>))),
      resource_type |-> Get(Get(log_data, "resource", EmptyDict),
                            "type", JNull),
      project_id |-> Get(Get(Get(log_data, "resource", EmptyDict),
                             "labels", EmptyDict),
                         "project_id", JStr(StrUnknown)),
      trace_id |-> Get(log_data, "trace", JNull),
      span_id |-> Get(log_data, "spanId", JNull),
      labels |-> Get(log_data, "labels", EmptyDict),
      resource_name |-> Get(Get(Get(log_data, "resource", EmptyDict),
                                "labels", EmptyDict),
                            "container_name", JStr(<<>>)),
      source_location |-> Get(log_data, "sourceLocation", EmptyDict) ]

\* the dict built from log_data; a field is Raised when its expression raises
ExtractFields(log_data) ==
    [ timestamp |-> Get(log_data, "timestamp", JNull),
      severity |-> Get(log_data, "severity", JStr(StrINFO)),
      message |-> Get(log_data, "textPayload",
                      Get(log_data, "message", JStr(<<>>))),
      resource_type |-> Get(Get(log_data, "resource", EmptyDict),
                            "type", JStr(StrUnknown)),
      project_id |-> Get(Get(Get(log_data, "resource", EmptyDict),
                             "labels", EmptyDict),
                         "project_id", JStr(StrUnknown)),
      trace_id |-> Get(log_data, "trace", JNull),
      span_id |-> Get(log_data, "spanId", JNull),
      labels |-> Get(log_data, "labels", EmptyDict),
      resource_name |-> Get(Get(Get(log_data, "resource", EmptyDict),
                                "labels", EmptyDict),
                            "container_name", JStr(<<>>)),
      source_location |-> Get(log_data, "sourceLocation", EmptyDict) ]

\* ParseLogEntry.process(element): the records yielded and the increments
\* of the two counters; any exception is caught and counted
ParseLogEntryProcess(element) ==
    LET processed_log == ExtractFields(LogData(element))
        raised == \E k \in DOMAIN processed_log : processed_log[k].t = "raise"
    IN  IF raised
        THEN [out |-> <<>>, valid_logs |-> 0, parse_errors |-> 1]
        ELSE [out |-> <<processed_log>>, valid_logs |-> 1, parse_errors |-> 0]

-----------------------------------------------------------------------------
(* EnrichLogs *)

\* datetime.isoformat() of the instant t (microseconds): the seconds in a
\* fixed width, then the microseconds unless they are zero
IsoFormat(t) ==
    ZeroPad(t \div UsecPerSec, 4)
        \o (IF t % UsecPerSec = 0 THEN <<>>
            ELSE <<".">> \o ZeroPad(t % UsecPerSec, 6))

\* Truncate without the slice: message + '...[TRUNCATED]'
TruncateNoSlice(message) ==
    IF message.t = "str" THEN JStr(message.v \o TruncationMarker) ELSE Raised

\* Truncate with the slice one short: message[:999] + '...[TRUNCATED]'
TruncateOneShort(message) ==
    IF message.t = "str"
    THEN JStr(SubSeq(message.v, 1, Min(MaxMessageLen - 1, Len(message.v)))
                  \o TruncationMarker)
    ELSE Raised

\* Truncate with the marker in front: '...[TRUNCATED]' + message[:1000]
TruncateMarkerFirst(message) ==
    IF message.t = "str"
    THEN JStr(TruncationMarker
                  \o SubSeq(message.v, 1, Min(MaxMessageLen, Len(message.v))))
    ELSE Raised

\* message[:1000] + '...[TRUNCATED]': TypeError unless message is a str
Truncate(message) ==
    IF message.t = "str"
    THEN JStr(SubSeq(message.v, 1, Min(MaxMessageLen, Len(message.v)))
                  \o TruncationMarker)
    ELSE Raised

\* EnrichLogs.process(element) at wall-clock time t: the records yielded,
\* and whether an exception left the method
EnrichLogsProcess(element, t) ==
    LET stamped == [k \in DOMAIN element \cup {"ingestion_time", "pipeline_version"} |->
                        CASE k = "ingestion_time" -> JStr(IsoFormat(t))
                          [] k = "pipeline_version" -> JStr(PipelineVersion)
                          [] OTHER -> element[k]]
        message == IF "message" \in DOMAIN stamped THEN stamped["message"]
                   ELSE JStr(<<>>)
    IN  IF ~HasLen(message) THEN [out |-> <<>>, raised |-> TRUE]
        ELSE IF PyLen(message) > MaxMessageLen
        THEN IF Truncate(message).t = "raise"
             THEN [out |-> <<>>, raised |-> TRUE]
             ELSE [out |-> <<[stamped EXCEPT !["message"] = Truncate(message)]>>,
                   raised |-> FALSE]
        ELSE [out |-> <<stamped>>, raised |-> FALSE]

-----------------------------------------------------------------------------
(* DetermineShardTable *)

\* a % b as C computes it: the result has the sign of a
PyModTruncating(a, b) == IF a >= 0 THEN a % b ELSE -((-a) % b)

\* a % b as Python computes it: for b > 0 the result lies in 0..b-1
PyMod(a, b) == a % b

\* hash(x) in a process whose str hashes are strHash: TypeError for the
\* unhashable list and dict
PyHash(strHash, x) ==
    CASE x.t \in {"str", "null"} -> [ok |-> TRUE, h |-> strHash[x]]
      [] x.t = "int" -> [ok |-> TRUE, h |-> IF x.v = -1 THEN -2 ELSE x.v]
      [] OTHER -> [ok |-> FALSE, h |-> 0]

\* f"real_time_logs_shard_{shard_num}"
TableName(shard_num) == TablePrefix \o DecStr(shard_num)

\* (project_hash % 4) + 1
ShardNum(project_hash) == PyMod(project_hash, NumShards) + 1

\* DetermineShardTable.process(element): the (table_name, element) pairs
\* yielded, and whether an exception left the method
DetermineShardTableProcess(strHash, element) ==
    LET project_id == IF "project_id" \in DOMAIN element THEN element["project_id"]
                      ELSE JStr(<<>>)
        project_hash == PyHash(strHash, project_id)
    IN  IF ~project_hash.ok THEN [out |-> <<>>, raised |-> TRUE]
        ELSE [out |-> << <<TableName(ShardNum(project_hash.h)), element>> >>,
              raised |-> FALSE]

-----------------------------------------------------------------------------
(* run_pipeline: the per-shard branches *)

\* range(1, 5)
RangeStop == 5
ShardRange == 1..(RangeStop - 1)

\* the Filter with shard read when the lambda runs, after the loop has ended
FilterShardLateBound(shard, x) == x[1] = TableName(RangeStop - 1)

\* the Filter of branch shard: x[0] == f"real_time_logs_shard_{shard}"
FilterShard(shard, x) == x[1] = TableName(shard)

\* the branches whose Filter passes the pair x
Branches(x) == {shard \in ShardRange : FilterShard(shard, x)}

-----------------------------------------------------------------------------
(* The raw messages of a run *)

StrERROR == <<"E", "R", "R", "O", "R">>
StrBoom == <<"b", "o", "o", "m">>
StrProj7 == <<"p", "r", "o", "j", "-", "7">>

\* the element Pub/Sub delivers for a text, and the same text as a str
Bytes(text) == [t |-> "bytes", v |-> text, utf8 |-> TRUE]
BadBytes(text) == [t |-> "bytes", v |-> text, utf8 |-> FALSE]
Text(text) == [t |-> "text", v |-> text, utf8 |-> TRUE]

\* the dict d with d[k] = val
WithKey(d, k, val) ==
    JDict([x \in DOMAIN d.v \cup {k} |-> IF x = k THEN val ELSE d.v[x]])

\* the optional top-level keys other than resource, and a value of the
\* documented type for each
TopKeys ==
    { "timestamp", "severity", "textPayload", "message", "trace", "spanId",
      "labels", "sourceLocation" }

TopValue(k) ==
    CASE k = "timestamp" -> JStr(<<"t", "0">>)
      [] k = "severity" -> JStr(StrERROR)
      [] k = "textPayload" -> JStr(StrBoom)
      [] k = "message" -> JStr(<<"m", "s", "g">>)
      [] k = "trace" -> JStr(<<"t", "r">>)
      [] k = "spanId" -> JStr(<<"s", "p">>)
      [] k = "labels" -> JDict([component |-> JStr(<<"c">>)])
      [] k = "sourceLocation" -> JDict([file |-> JStr(<<"f">>)])

TopDoc(keys) == JDict([k \in keys |-> TopValue(k)])
TopDocs == {TopDoc(keys) : keys \in SUBSET TopKeys}

LabelValue(k) ==
    IF k = "project_id" THEN JStr(StrProj7) ELSE JStr(<<"c", "n">>)

LabelsVariants ==
    {JDict([k \in keys |-> LabelValue(k)]) :
        keys \in SUBSET {"project_id", "container_name"}}

ResourceVariants ==
    LET bare == {EmptyDict, JDict([type |-> JStr(<<"g", "c", "e">>)])}
    IN  bare \cup {WithKey(r, "labels", l) : r \in bare, l \in LabelsVariants}

\* the top-level shapes that the resource variants are combined with
BaseDocs == {TopDoc({}), TopDoc({"severity", "textPayload"}), TopDoc(TopKeys)}

\* objects in which every field present has the documented type
WellTypedDocs ==
    TopDocs \cup {WithKey(d, "resource", r) : d \in BaseDocs, r \in ResourceVariants}

\* values that are no mapping
WrongTypes == {JNull, JStr(<<"x">>), JList(<<>>), JInt(5)}

\* objects with a value that is no mapping at resource or resource.labels
IllTypedDocs ==
    LET base == {TopDoc({}), TopDoc({"severity", "textPayload"})}
    IN  {WithKey(d, "resource", w) : d \in base, w \in WrongTypes}
          \cup {WithKey(d, "resource", JDict([labels |-> w])) :
                    d \in base, w \in WrongTypes}

\* JSON values that are no object
NonObjects == {JNull, JInt(7), JStr(StrBoom), JList(<<JInt(1)>>), JList(<<>>)}

\* texts that are no JSON
MalformedTexts ==
    LET doc == Dumps(WithKey(TopDoc({"severity"}), "resource",
                             JDict([labels |-> JDict([project_id |-> JStr(StrProj7)])])))
    IN  { <<>>,
          <<Word("not"), Word("json")>>,
          SubSeq(doc, 1, Len(doc) - 1),
          SubSeq(doc, 2, Len(doc)),
          doc \o <<Punct("}")>>,
          doc \o doc,
          <<Punct("{"), Key("severity"), Punct("}")>>,
          <<Punct("{"), Key("severity"), Punct(":"), JStr(StrERROR), Punct(","),
            Punct("}")>>,
          <<Punct("["), JInt(1), Punct(",")>>,
          <<Punct("{"), JStr(StrERROR), Punct(":"), JInt(1), Punct("}")>> }

ParseInputs ==
    {Bytes(Dumps(d)) : d \in WellTypedDocs \cup IllTypedDocs \cup NonObjects}
      \cup {Text(Dumps(d)) : d \in BaseDocs \cup IllTypedDocs}
      \cup {Bytes(m) : m \in MalformedTexts}
      \cup {Text(m) : m \in MalformedTexts}
      \cup {BadBytes(Dumps(d)) : d \in BaseDocs}

\* a str of n characters that differ from place to place
StrOfLen(n, step) ==
    JStr([i \in 1..n |-> <<"a", "b", "c">>[((i * step) % 3) + 1]])

\* how far past the limit the lengths of the long messages go
MaxOver == 2

MessageLengths ==
    {0, 1} \cup {MaxMessageLen - 1 + k : k \in 0..MaxOver}
      \cup {MaxMessageLen + Len(TruncationMarker) + k : k \in 0..1}

\* messages: strs around the limit, strs that already end with the marker,
\* and values that are no str
Messages ==
    {StrOfLen(n, step) : n \in MessageLengths, step \in 1..2}
      \cup {JStr(SubSeq(StrOfLen(MaxMessageLen, 1).v, 1, n) \o TruncationMarker) :
                n \in {MaxMessageLen - 1, MaxMessageLen}}
      \cup {JNull, JInt(5), JList(<<JInt(1)>>), JDict([file |-> JInt(1)])}

EnrichInputs ==
    {Bytes(Dumps(JDict([textPayload |-> m]))) : m \in Messages}
      \cup {Bytes(Dumps(JDict([message |-> m]))) : m \in Messages}
      \cup {Bytes(Dumps(EmptyDict)), Bytes(<<Word("not"), Word("json")>>)}

\* the values hash() is asked for that are hashed by the process's seed
HashKeys == {JStr(StrProj7), JStr(StrUnknown), JNull}

ProjectIds ==
    {JStr(StrProj7), JNull, JInt(5), JInt(-1), JInt(-6), JList(<<>>)}

RouteInputs ==
    {Bytes(Dumps(JDict([resource |-> JDict([labels |-> JDict([project_id |-> p])])]))) :
        p \in ProjectIds}
      \cup {Bytes(Dumps(EmptyDict)), Bytes(<<Word("not"), Word("json")>>)}

Inputs(u) ==
    CASE u = "parse" -> ParseInputs
      [] u = "enrich" -> EnrichInputs
      [] u = "route" -> RouteInputs

\* the values of hash(): Py_hash_t is signed
HashRange == (-HashBound)..HashBound

\* the steps of the wall clock, in microseconds
TickSteps == {1, UsecPerSec - 1}

\* the advances of the clock in a run: only EnrichLogs reads the clock, so
\* the other universes advance it once
TickBudget(u) == IF u = "enrich" THEN MaxTicks ELSE 1

-----------------------------------------------------------------------------
(* The pipeline.  The stages are fused: one element is carried through    *)
(* Parse, Enrich, Route and the shard branches before the next is read.    *)

VARIABLES
    universe,       \* which raw messages the run draws from
    hashOf,         \* the hash of str and None in this process
    now,            \* the wall clock, in microseconds
    ticks,          \* advances of the clock so far
    processed,      \* raw messages read so far
    pc,             \* the stage the element in flight is at
    elem,           \* the raw message in flight
    parsedOut,      \* what ParseLogEntry yielded for it
    enrichedOut,    \* what EnrichLogs yielded for it
    routedOut,      \* what DetermineShardTable yielded for it
    sunk,           \* the branches whose writer was handed the last row
    sunkTable,      \* the table name the last row was routed to
    parse_errors,   \* the counter pipeline/parse_errors
    valid_logs,     \* the counter pipeline/valid_logs
    rows,           \* rows handed to each branch's WriteToBigQuery
    shardsOf        \* history: the table names each project_id was given

vars ==
    << universe, hashOf, now, ticks, processed, pc, elem, parsedOut,
       enrichedOut, routedOut, sunk, sunkTable, parse_errors, valid_logs, rows,
       shardsOf >>

NoElement == [t |-> "none", v |-> <<>>, utf8 |-> TRUE]

InitWith(u, hashes) ==
    /\ universe = u
    /\ hashOf \in hashes
    /\ now = 0
    /\ ticks = 0
    /\ processed = 0
    /\ pc = "idle"
    /\ elem = NoElement
    /\ parsedOut = <<>>
    /\ enrichedOut = <<>>
    /\ routedOut = <<>>
    /\ sunk = {}
    /\ sunkTable = <<>>
    /\ parse_errors = 0
    /\ valid_logs = 0
    /\ rows = [shard \in ShardRange |-> 0]
    /\ shardsOf = <<>>

\* a process whose hashes are all h
ConstantHash(h) == [x \in HashKeys |-> h]

Init == InitWith("parse", {ConstantHash(-1), ConstantHash(HashBound)})
InitEnrich == InitWith("enrich", {ConstantHash(-1), ConstantHash(HashBound)})
InitRoute == InitWith("route", [HashKeys -> HashRange])

\* ParseLogEntry.process on the next raw message
Parse(raw) ==
    /\ pc = "idle"
    /\ processed < MaxMsgs
    /\ LET r == ParseLogEntryProcess(raw)
       IN  /\ parsedOut' = r.out
           /\ valid_logs' = valid_logs + r.valid_logs
           /\ parse_errors' = parse_errors + r.parse_errors
           /\ pc' = IF r.out = <<>> THEN "idle" ELSE "parsed"
    /\ processed' = processed + 1
    /\ elem' = raw
    /\ enrichedOut' = <<>>
    /\ routedOut' = <<>>
    /\ sunk' = {}
    /\ sunkTable' = <<>>
    /\ UNCHANGED <<universe, hashOf, now, ticks, rows, shardsOf>>

\* EnrichLogs.process on the parsed record; nothing catches an exception
\* that leaves it, so the bundle fails and no later element is processed
Enrich ==
    /\ pc = "parsed"
    /\ LET r == EnrichLogsProcess(parsedOut[1], now)
       IN  /\ enrichedOut' = r.out
           /\ pc' = IF r.raised THEN "enrich_raised" ELSE "enriched"
    /\ UNCHANGED <<universe, hashOf, now, ticks, processed, elem, parsedOut,
                   routedOut, sunk, sunkTable, parse_errors, valid_logs, rows,
                   shardsOf>>

\* DetermineShardTable.process on the enriched record; an exception fails
\* the bundle here too
Route ==
    /\ pc = "enriched"
    /\ LET r == DetermineShardTableProcess(hashOf, enrichedOut[1])
           pid == enrichedOut[1]["project_id"]
           seen == IF pid \in DOMAIN shardsOf THEN shardsOf[pid] ELSE <<>>
       IN  /\ routedOut' = r.out
           /\ pc' = IF r.raised THEN "route_raised" ELSE "routed"
           /\ shardsOf' =
                IF r.raised THEN shardsOf
                ELSE [x \in DOMAIN shardsOf \cup {pid} |->
                        IF x = pid
                        THEN Append(seen, r.out[1][1])
                        ELSE shardsOf[x]]
    /\ UNCHANGED <<universe, hashOf, now, ticks, processed, elem, parsedOut,
                   enrichedOut, sunk, sunkTable, parse_errors, valid_logs, rows>>

\* the Filter, Map and WriteToBigQuery of every branch on the routed pair;
\* the element then leaves the pipeline.  WindowInto(FixedWindows(60)) only
\* tags the element with a window and changes none of its fields; how rows
\* are batched into appends is inside WriteToBigQuery and is not modelled.
FanOut ==
    /\ pc = "routed"
    /\ sunk' = Branches(routedOut[1])
    /\ sunkTable' = routedOut[1][1]
    /\ rows' = [shard \in ShardRange |->
                    rows[shard] + (IF shard \in Branches(routedOut[1]) THEN 1 ELSE 0)]
    /\ pc' = "idle"
    /\ elem' = NoElement
    /\ parsedOut' = <<>>
    /\ enrichedOut' = <<>>
    /\ routedOut' = <<>>
    /\ UNCHANGED <<universe, hashOf, now, ticks, processed, parse_errors,
                   valid_logs, shardsOf>>

\* the wall clock advances between the stages of an element
Tick ==
    /\ pc \in {"parsed", "enriched"}
    /\ ticks < TickBudget(universe)
    /\ \E d \in TickSteps : now' = now + d
    /\ ticks' = ticks + 1
    /\ UNCHANGED <<universe, hashOf, processed, pc, elem, parsedOut, enrichedOut,
                   routedOut, sunk, sunkTable, parse_errors, valid_logs, rows,
                   shardsOf>>

Next ==
    \/ \E raw \in Inputs(universe) : Parse(raw)
    \/ Enrich
    \/ Route
    \/ FanOut
    \/ Tick

Spec == Init /\ [][Next]_vars
SpecEnrich == InitEnrich /\ [][Next]_vars
SpecRoute == InitRoute /\ [][Next]_vars

-----------------------------------------------------------------------------
(* Claims about ParseLogEntry *)

\* the text of every well-typed object, written once
WellTypedTexts == [d \in WellTypedDocs |-> Dumps(d)]
IllTypedTexts == [d \in IllTypedDocs |-> Dumps(d)]

\* the raw message in flight is the text of the object d
Carries(texts, d) == elem.t \in {"bytes", "text"} /\ elem.utf8 /\ elem.v = texts[d]

Has(d, k) == k \in DOMAIN d.v

\* the value at d[k1][k2]... is absent
NoType(d) == ~Has(d, "resource") \/ ~Has(d.v["resource"], "type")
NoLabel(d, k) ==
    \/ ~Has(d, "resource")
    \/ ~Has(d.v["resource"], "labels")
    \/ ~Has(d.v["resource"].v["labels"], k)

\* every field of rec whose source is absent from d has the documented default
DefaultsWhenAbsent(d, rec) ==
    /\ ~Has(d, "timestamp") => rec["timestamp"] = JNull
    /\ ~Has(d, "severity") => rec["severity"] = JStr(<<"I", "N", "F", "O">>)
    /\ Has(d, "textPayload") => rec["message"] = d.v["textPayload"]
    /\ ~Has(d, "textPayload") /\ Has(d, "message") => rec["message"] = d.v["message"]
    /\ ~Has(d, "textPayload") /\ ~Has(d, "message") => rec["message"] = JStr(<<>>)
    /\ NoType(d) => rec["resource_type"] = JStr(<<"u", "n", "k", "n", "o", "w", "n">>)
    /\ NoLabel(d, "project_id") =>
          rec["project_id"] = JStr(<<"u", "n", "k", "n", "o", "w", "n">>)
    /\ ~Has(d, "trace") => rec["trace_id"] = JNull
    /\ ~Has(d, "spanId") => rec["span_id"] = JNull
    /\ ~Has(d, "labels") => rec["labels"] = JDict(<<>>)
    /\ NoLabel(d, "container_name") => rec["resource_name"] = JStr(<<>>)
    /\ ~Has(d, "sourceLocation") => rec["source_location"] = JDict(<<>>)

\* C1: for every raw message that is the text of a JSON object whose present
\* fields are well typed, whatever subset of the optional fields it holds,
\* ParseLogEntry.process yields exactly one record, and every field of it
\* whose source is absent has the documented default.
C1_DefaultsForAbsentFields ==
    \A d \in WellTypedDocs :
        Carries(WellTypedTexts, d) =>
            /\ Len(parsedOut) = 1
            /\ DefaultsWhenAbsent(d, parsedOut[1])

\* the scenario {"severity":"ERROR","textPayload":"boom",
\* "resource":{"labels":{"project_id":"proj-7"}}} has been parsed
C1_Witness ==
    /\ pc = "parsed"
    /\ elem = Bytes(Dumps(WithKey(TopDoc({"severity", "textPayload"}), "resource",
                    JDict([labels |-> JDict([project_id |-> JStr(StrProj7)])]))))
    /\ Len(parsedOut) = 1
    /\ parsedOut[1]["severity"] = JStr(<<"E", "R", "R", "O", "R">>)
    /\ parsedOut[1]["message"] = JStr(<<"b", "o", "o", "m">>)
    /\ parsedOut[1]["project_id"] = JStr(<<"p", "r", "o", "j", "-", "7">>)
    /\ parsedOut[1]["resource_type"] = JStr(<<"u", "n", "k", "n", "o", "w", "n">>)
    /\ parsedOut[1]["timestamp"] = JNull

\* C2: for every raw message that is the text of a JSON object with a value
\* of the wrong type at resource or resource.labels, ParseLogEntry.process
\* yields one record whose resource_type, project_id and resource_name have
\* their defaults, and counts it in valid_logs, not in parse_errors.
C2_WrongTypeDegradesToDefault ==
    \A d \in IllTypedDocs :
        Carries(IllTypedTexts, d) /\ processed = 1 =>
            /\ Len(parsedOut) = 1
            /\ parsedOut[1]["resource_type"] = JStr(<<"u", "n", "k", "n", "o", "w", "n">>)
            /\ parsedOut[1]["project_id"] = JStr(<<"u", "n", "k", "n", "o", "w", "n">>)
            /\ parsedOut[1]["resource_name"] = JStr(<<>>)
            /\ valid_logs = 1
            /\ parse_errors = 0

\* a raw message that is no JSON: a text outside the grammar, or bytes that
\* are no UTF-8
IsMalformed(e) ==
    /\ e.t \in {"bytes", "text"}
    /\ e.v \in MalformedTexts \/ ~e.utf8

\* C3: for every malformed raw message, delivered as bytes or as text,
\* ParseLogEntry.process yields no record, increments parse_errors exactly
\* once and leaves valid_logs as it was.
C3_MalformedIsDroppedAndCounted ==
    [][ processed' = processed + 1 /\ IsMalformed(elem') =>
            /\ parsedOut' = <<>>
            /\ pc' = "idle"
            /\ parse_errors' = parse_errors + 1
            /\ valid_logs' = valid_logs ]_vars

\* the bytes b"not json" have been handled, after a message that parsed
C3_Witness ==
    /\ pc = "idle"
    /\ elem = Bytes(<<Word("not"), Word("json")>>)
    /\ parsedOut = <<>>
    /\ parse_errors = 1
    /\ valid_logs = 1

-----------------------------------------------------------------------------
(* Claims about EnrichLogs *)

\* C4: no error raised while a message is parsed or enriched leaves that
\* record's scope: neither process method lets an exception out, for any
\* record the parser can yield, so every later message is still processed.
C4_NoErrorLeavesRecordScope == pc # "enrich_raised"

\* C5: the message of every record EnrichLogs.process yields is at most 1000
\* characters long.
C5_MessageAtMost1000 ==
    enrichedOut # <<>> => PyLen(enrichedOut[1]["message"]) <= 1000

\* C5, amended: the message of every record EnrichLogs.process yields is at
\* most 1014 characters long, 1000 and the 14 of the marker; one longer than
\* 1000 is a 1000-character prefix followed by the marker.
C5_MessageAtMost1014 ==
    enrichedOut # <<>> =>
        LET m == enrichedOut[1]["message"]
        IN  /\ PyLen(m) <= 1014
            /\ PyLen(m) > 1000 =>
                  /\ m.t = "str"
                  /\ PyLen(m) = 1014
                  /\ SubSeq(m.v, 1001, 1014) =
                        << ".", ".", ".", "[", "T", "R", "U", "N", "C", "A", "T",
                           "E", "D", "]" >>

\* a message of 1015 characters has been enriched to one of 1014
C5_Witness ==
    /\ pc = "enriched"
    /\ parsedOut[1]["message"].t = "str"
    /\ Len(parsedOut[1]["message"].v) = 1015
    /\ Len(enrichedOut[1]["message"].v) = 1014

\* C6: a str message longer than 1000 characters comes out 1000 + 14
\* characters long, its first 1000 characters those of the original and its
\* end the marker ...[TRUNCATED]; a message of 1000 characters or fewer comes
\* out unchanged.
C6_TruncationShape ==
    enrichedOut # <<>> =>
        LET before == parsedOut[1]["message"]
            after == enrichedOut[1]["message"]
        IN  /\ before.t = "str" /\ Len(before.v) > 1000 =>
                  /\ after.t = "str"
                  /\ Len(after.v) = 1000 + 14
                  /\ SubSeq(after.v, 1, 1000) = SubSeq(before.v, 1, 1000)
                  /\ SubSeq(after.v, 1001, Len(after.v)) =
                        << ".", ".", ".", "[", "T", "R", "U", "N", "C", "A", "T",
                           "E", "D", "]" >>
            /\ PyLen(before) <= 1000 => after = before

\* a message of 1001 characters has been truncated, after one of exactly
\* 1000 characters went through unchanged
C6_Witness ==
    /\ pc = "enriched"
    /\ processed = 2
    /\ rows # [shard \in ShardRange |-> 0]
    /\ parsedOut[1]["message"].t = "str"
    /\ Len(parsedOut[1]["message"].v) = 1001
    /\ Len(enrichedOut[1]["message"].v) = 1014

\* the number a string of decimal digits writes
RECURSIVE DecVal(_)
DecVal(s) ==
    IF s = <<>> THEN 0
    ELSE 10 * DecVal(SubSeq(s, 1, Len(s) - 1))
           + (CHOOSE d \in 0..9 : Digits[d + 1] = s[Len(s)])

\* the instant an ingestion_time string names, in microseconds
IsoInstant(s) ==
    DecVal(SubSeq(s, 1, 4)) * 1000000
      + (IF Len(s) > 4 THEN DecVal(SubSeq(s, 6, Len(s))) ELSE 0)

\* C7: EnrichLogs.process applied to a record it has yielded yields a record
\* equal to it in every field but ingestion_time, also when the first
\* application truncated the message, and the second ingestion_time is not
\* earlier than the first.
C7_EnrichIdempotent ==
    enrichedOut # <<>> =>
        LET once == enrichedOut[1]
            again == EnrichLogsProcess(once, now)
        IN  /\ ~again.raised
            /\ Len(again.out) = 1
            /\ DOMAIN again.out[1] = DOMAIN once
            /\ \A k \in DOMAIN once \ {"ingestion_time"} : again.out[1][k] = once[k]
            /\ IsoInstant(once["ingestion_time"].v)
                  <= IsoInstant(again.out[1]["ingestion_time"].v)

\* a record whose message was truncated is enriched again after the clock
\* has advanced
C7_Witness ==
    /\ pc = "enriched"
    /\ parsedOut[1]["message"].t = "str"
    /\ Len(parsedOut[1]["message"].v) = 1013
    /\ Len(enrichedOut[1]["message"].v) = 1014
    /\ enrichedOut[1]["ingestion_time"] # JStr(IsoFormat(now))
    /\ EnrichLogsProcess(enrichedOut[1], now).out[1]["message"] = enrichedOut[1]["message"]

-----------------------------------------------------------------------------
(* Claims about DetermineShardTable and the shard branches *)

\* the table names of the shards 1 to 4
ShardTables ==
    {TablePrefix \o <<c>> : c \in {"1", "2", "3", "4"}}

\* C8: within one run the shard of a record is a function of its project_id
\* alone: every record with the same project_id gets the same table, and
\* every table given is that of a shard in 1..4, also when hash(project_id)
\* is negative.
C8_ShardIsFunctionOfProjectId ==
    /\ \A pid \in DOMAIN shardsOf :
          \A i \in 1..Len(shardsOf[pid]) :
              /\ shardsOf[pid][i] \in ShardTables
              /\ shardsOf[pid][i] = shardsOf[pid][1]
    /\ routedOut # <<>> => routedOut[1][1] \in ShardTables

\* two records with one project_id, whose hash is negative, have been routed
C8_Witness ==
    \E pid \in DOMAIN shardsOf :
        /\ pid.t = "str"
        /\ hashOf[pid] < 0
        /\ Len(shardsOf[pid]) = 2

RECURSIVE SumRows(_)
\* the rows handed to the writers of the branches in set
SumRows(set) ==
    IF set = {} THEN 0
    ELSE LET shard == CHOOSE x \in set : TRUE
         IN  rows[shard] + SumRows(set \ {shard})

\* C9: the table names of the shards 1..4 are pairwise different, every pair
\* DetermineShardTable.process yields passes the Filter of exactly one
\* branch, the one of its table, and every record that left the pipeline was
\* handed to one writer and no other.
C9_ExactlyOneBranch ==
    /\ \A a, b \in 1..4 : TableName(a) = TableName(b) => a = b
    /\ routedOut # <<>> =>
          \E shard \in 1..4 :
              /\ Branches(routedOut[1]) = {shard}
              /\ routedOut[1][1] = TableName(shard)
    /\ sunkTable # <<>> =>
          \E shard \in 1..4 : sunk = {shard} /\ sunkTable = TableName(shard)
    /\ pc = "idle" => SumRows(DOMAIN rows) = valid_logs

\* two records went to the writers of two different branches
C9_Witness ==
    /\ pc = "idle"
    /\ valid_logs = 2
    /\ \E a, b \in 1..4 : a # b /\ rows[a] = 1 /\ rows[b] = 1 /\ sunk = {b}

====
